---- MODULE Spec2Model ----
(***************************************************************************)
(* Model of the retrieval engine and the intent router of the clinical     *)
(* trial protocol assistant: src/src/rag.py (RAGIndex, hybrid retrieval    *)
(* with reciprocal rank fusion, context assembly, index build/load) and    *)
(* src/src/multiagent.py (_safe_json_loads, _route_question), and of the   *)
(* segmenters src/src/section_splitter.py, src/src/structure_chunker.py,   *)
(* the windowing of rag.py and the extractors of src/src/agents.py.        *)
(*                                                                         *)
(* Strings are sequences of one-character strings, so that len() is Len(). *)
(* The embedding model, the FAISS store, BM25 scoring and the generation   *)
(* service are external: what they return is a nondeterministic input of   *)
(* the action that calls them.  Fused scores are the exact rationals       *)
(* 1/(k_param + rank), all scaled by RrfScale so that they are integers.   *)
(***************************************************************************)
EXTENDS Integers, Sequences, FiniteSets, TLC

(* ------------------------------ bounds --------------------------------- *)
\* most windows one protocol text is chunked into
MaxDocs == 3
\* largest top_k a caller passes to hybrid_search / answer
MaxTopK == 3
\* largest max_context_chars a caller passes to answer
MaxContextChars == 10
\* BM25 relevance levels a query can give a window text (0 .. MaxBm25)
MaxBm25 == 2

(* ------------------------- program constants --------------------------- *)
k_param == 60
DefaultTopK == 5

(* --------------------------- small universes --------------------------- *)
\* window texts (page_content) and section titles that occur in the model
Contents == { <<"a">>, <<"b">>, <<"c", "c">> }
Titles == { <<"S">> }

RECURSIVE SeqsUpTo(_, _)
\* all sequences over S of length 0 .. n
SeqsUpTo(S, n) ==
  IF n = 0 THEN { <<>> }
  ELSE LET shorter == SeqsUpTo(S, n - 1)
       IN  shorter \cup { Append(s, x) : s \in { t \in shorter : Len(t) = n - 1 }, x \in S }

Range(s) == { s[i] : i \in DOMAIN s }

Injective(s) == \A i, j \in DOMAIN s : s[i] = s[j] => i = j

Min(a, b) == IF a <= b THEN a ELSE b

\* Python's seq[:n] for n >= 0
Take(s, n) == SubSeq(s, 1, Min(n, Len(s)))

RECURSIVE SumLen(_)
SumLen(blocks) ==
  IF blocks = <<>> THEN 0 ELSE Len(Head(blocks)) + SumLen(Tail(blocks))

(* ------------------- python built-ins used by the code ------------------ *)
RECURSIVE MaxKey(_, _)
\* max(key[x] for x in items), items non-empty
MaxKey(items, key) ==
  IF Len(items) = 1 THEN key[items[1]]
  ELSE LET m == MaxKey(Tail(items), key)
       IN  IF key[items[1]] >= m THEN key[items[1]] ELSE m

\* index of the first item whose key is k
FirstWithKey(items, key, k) ==
  CHOOSE i \in DOMAIN items :
    /\ key[items[i]] = k
    /\ \A j \in 1..(i - 1) : key[items[j]] # k

\* index of the last item whose key is k
LastWithKey(items, key, k) ==
  CHOOSE i \in DOMAIN items :
    /\ key[items[i]] = k
    /\ \A j \in (i + 1)..Len(items) : key[items[j]] # k

RemoveAt(s, i) == SubSeq(s, 1, i - 1) \o SubSeq(s, i + 1, Len(s))

RECURSIVE SortedLastFirst(_, _)
\* a descending sort that is not stable: equal keys come out in reverse order
SortedLastFirst(items, key) ==
  IF items = <<>> THEN <<>>
  ELSE LET i == LastWithKey(items, key, MaxKey(items, key))
       IN  <<items[i]>> \o SortedLastFirst(RemoveAt(items, i), key)

RECURSIVE SortedReverse(_, _)
\* sorted(items, key=..., reverse=True): descending by key and stable, i.e.
\* items with equal keys keep their original relative order
SortedReverse(items, key) ==
  IF items = <<>> THEN <<>>
  ELSE LET i == FirstWithKey(items, key, MaxKey(items, key))
       IN  <<items[i]>> \o SortedReverse(RemoveAt(items, i), key)

(* ----------------------- documents and the index ----------------------- *)
\* langchain Document(page_content=chunk, metadata={section_title, chunk_id})
Document(title, i, chunk) ==
  [page_content |-> chunk, section_title |-> title, chunk_id |-> i]

\* the sections dict of a text as _build_documents_from_sections sees it: an
\* insertion-ordered mapping title -> chunks, the chunks being what the text
\* splitter makes of the section's content
SectionLists ==
  { secs \in SeqsUpTo([title : Titles, chunks : SeqsUpTo(Contents, MaxDocs)],
                      Cardinality(Titles)) :
      /\ \A i, j \in DOMAIN secs : secs[i].title = secs[j].title => i = j
      /\ SumLen([i \in DOMAIN secs |-> secs[i].chunks]) \in 1..MaxDocs }

RECURSIVE _build_documents_from_sections(_)
_build_documents_from_sections(sections) ==
  IF sections = <<>> THEN <<>>
  ELSE LET sec == Head(sections)
       IN  [i \in DOMAIN sec.chunks |-> Document(sec.title, i - 1, sec.chunks[i])]
             \o _build_documents_from_sections(Tail(sections))

\* the bundle at persist_dir: index.faiss present or not, and its docstore
NoBundle == [exists |-> FALSE, docs |-> <<>>]
Bundle(docs) == [exists |-> TRUE, docs |-> docs]

(* --------------------------- hybrid retrieval --------------------------- *)
RECURSIVE Product(_, _)
Product(lo, hi) == IF lo > hi THEN 1 ELSE lo * Product(lo + 1, hi)

\* common denominator of the terms 1/(k_param + rank), rank in 1 .. MaxTopK
RrfScale == Product(k_param + 1, k_param + MaxTopK)

\* 1 / (k_param + rank), scaled
RrfTerm(rank) == RrfScale \div (k_param + rank)

\* rrf_scores = {}: a text that is no key of the dict has score 0
EmptyScores == [t \in Contents |-> 0]

RECURSIVE ScoreList(_, _, _)
\* for rank, doc in enumerate(docs, start=rank): rrf_scores[doc.page_content] =
\*     rrf_scores.get(doc.page_content, 0) + 1 / (k_param + rank)
ScoreList(scores, docs, rank) ==
  IF docs = <<>> THEN scores
  ELSE LET t == Head(docs).page_content
       IN  ScoreList([scores EXCEPT ![t] = @ + RrfTerm(rank)], Tail(docs), rank + 1)

\* the second loop starting its ranks at 2
RrfScoresSecondOffByOne(first, second) ==
  ScoreList(ScoreList(EmptyScores, first, 1), second, 2)

\* the two scoring loops of hybrid_search, over the first and the second list
RrfScores(first, second) ==
  ScoreList(ScoreList(EmptyScores, first, 1), second, 1)

RECURSIVE UniqueKeysFrom(_, _)
UniqueKeysFrom(docs, seen) ==
  IF docs = <<>> THEN <<>>
  ELSE LET t == Head(docs).page_content
       IN  IF t \in seen THEN UniqueKeysFrom(Tail(docs), seen)
           ELSE <<t>> \o UniqueKeysFrom(Tail(docs), seen \cup {t})

\* the keys of unique_docs in insertion order: the texts of the merged list in
\* the order they are first met
UniqueKeys(docs) == UniqueKeysFrom(docs, {})

\* unique_docs[t]: the first doc of the merged list whose text is t
UniqueDoc(docs, t) ==
  docs[CHOOSE i \in DOMAIN docs :
         /\ docs[i].page_content = t
         /\ \A j \in 1..(i - 1) : docs[j].page_content # t]

\* the ranking without the [:top_k] slice
RankedUncut(keys, scores, top_k) == SortedReverse(keys, scores)

\* ranked = sorted(unique_docs.items(), key=rrf score, reverse=True)[:top_k]
Ranked(keys, scores, top_k) == Take(SortedReverse(keys, scores), top_k)

\* a merge that forgets the second list
MergedFirstOnly(first, second) == first

\* dense_docs + bm25_docs, the list unique_docs is filled from
Merged(first, second) == first \o second

\* lines 161-185 of hybrid_search: fuse two ranked lists of docs
Fuse(first, second, top_k) ==
  LET merged == Merged(first, second)
      scores == RrfScores(first, second)
      ranked == Ranked(UniqueKeys(merged), scores, top_k)
  IN  [i \in DOMAIN ranked |-> UniqueDoc(merged, ranked[i])]

\* what store.similarity_search_with_score(question, k=top_k) can return: the
\* min(k, n) nearest docs of the docstore, in an order the embedding decides
DenseLists(store_docs, top_k) ==
  { [i \in DOMAIN idx |-> store_docs[idx[i]]] :
      idx \in { s \in [1..Min(top_k, Len(store_docs)) -> DOMAIN store_docs] :
                  Injective(s) } }

\* bm25.get_scores(query): one relevance level per window, equal texts having
\* equal token lists and hence equal scores
Bm25Scores(docs) ==
  { [i \in DOMAIN docs |-> f[docs[i].page_content]] : f \in [Contents -> 0..MaxBm25] }

\* a lexical list that leaves out the windows whose score is zero
Bm25DocsPositiveOnly(docs, bm25_scores, top_k) ==
  LET scored == SelectSeq([i \in DOMAIN docs |-> i], LAMBDA i : bm25_scores[i] > 0)
      idx == Take(SortedReverse(scored, bm25_scores), top_k)
  IN  [i \in DOMAIN idx |-> docs[idx[i]]]

\* top_bm25_indices and bm25_docs, for one vector of BM25 scores
Bm25Docs(docs, bm25_scores, top_k) ==
  LET idx == Take(SortedReverse([i \in DOMAIN docs |-> i], bm25_scores), top_k)
  IN  [i \in DOMAIN idx |-> docs[idx[i]]]

Bm25Lists(docs, top_k) == { Bm25Docs(docs, sc, top_k) : sc \in Bm25Scores(docs) }

(* --------------------------- context assembly --------------------------- *)
\* f"[{doc.metadata.get('section_title','')}]\n{doc.page_content}"
Block(doc) == <<"[">> \o doc.section_title \o <<"]", "\n">> \o doc.page_content

RECURSIVE AssembleSkipping(_, _, _)
\* the loop with "continue" in place of "break"
AssembleSkipping(docs, total_chars, max_context_chars) ==
  IF docs = <<>> THEN <<>>
  ELSE LET block == Block(Head(docs))
       IN  IF total_chars + Len(block) > max_context_chars
           THEN AssembleSkipping(Tail(docs), total_chars, max_context_chars)
           ELSE <<block>> \o AssembleSkipping(Tail(docs), total_chars + Len(block),
                                              max_context_chars)

RECURSIVE Assemble(_, _, _)
\* the loop of answer that fills context_blocks; total_chars is the running sum
Assemble(docs, total_chars, max_context_chars) ==
  IF docs = <<>> THEN <<>>
  ELSE LET block == Block(Head(docs))
       IN  IF total_chars + Len(block) > max_context_chars
           THEN <<>>
           ELSE <<block>> \o Assemble(Tail(docs), total_chars + Len(block),
                                      max_context_chars)

RECURSIVE Join(_, _)
\* sep.join(parts)
Join(parts, sep) ==
  IF parts = <<>> THEN <<>>
  ELSE IF Len(parts) = 1 THEN parts[1]
  ELSE parts[1] \o sep \o Join(Tail(parts), sep)

\* the canonical reply of answer when nothing was retrieved, as one token
NotFound == <<"Not found in provided context.">>

\* texts the generation service can return (external), and str.strip()
GenOutputs == { <<"o", "k">>, <<" ", "o", "k", "\n">> }

RECURSIVE LStrip(_)
LStrip(s) ==
  IF s # <<>> /\ Head(s) \in {" ", "\n"} THEN LStrip(Tail(s)) ELSE s

RECURSIVE RStrip(_)
RStrip(s) ==
  IF s # <<>> /\ s[Len(s)] \in {" ", "\n"} THEN RStrip(SubSeq(s, 1, Len(s) - 1)) ELSE s

Strip(s) == RStrip(LStrip(s))

(* ------------------------------ the router ------------------------------ *)
\* JSON values as Python objects.  t is the Python type: "none", "bool", "int",
\* "float", "str", "list" or "dict"; s is a str's text, n a number's value (a
\* float's in halves, a bool's 0 or 1), a the items of a list or the keys of a
\* nested dict.
JNull == [t |-> "none", s |-> "", n |-> 0, a |-> <<>>]
JBool(b) == [t |-> "bool", s |-> "", n |-> IF b THEN 1 ELSE 0, a |-> <<>>]
JInt(n) == [t |-> "int", s |-> "", n |-> n, a |-> <<>>]
JFloat(halves) == [t |-> "float", s |-> "", n |-> halves, a |-> <<>>]
JStr(s) == [t |-> "str", s |-> s, n |-> 0, a |-> <<>>]
JList(items) == [t |-> "list", s |-> "", n |-> 0, a |-> items]
JDict(keys) == [t |-> "dict", s |-> "", n |-> 0, a |-> keys]

\* a top-level JSON object: which of the keys route, top_k, reason it has, and
\* the values of route and top_k (JNull where the key is missing)
Obj(has_route, route, has_top_k, top_k_value, has_reason) ==
  [has_route |-> has_route, route |-> route, has_top_k |-> has_top_k,
   top_k |-> top_k_value, has_reason |-> has_reason]

EmptyObj == Obj(FALSE, JNull, FALSE, JNull, FALSE)

\* what json.loads returns: a value, with its members if it is a dict
Parsed(value, obj) == [value |-> value, obj |-> obj]

\* largest integer the classifier is taken to write, besides the default
MaxHint == 2

Intents == {"objectives", "eligibility", "soa", "visit_definitions", "key_assessments", "rag"}

IntValues == (-1..MaxHint) \cup {DefaultTopK}

\* texts of JSON strings in the model, and those of them that contain "route"
StrValues == {"", "summary", "route", "reroute"} \cup Intents
HasSubstringRoute(s) == s \in {"route", "reroute"}

ScalarValues ==
  {JNull, JBool(TRUE), JBool(FALSE), JFloat(0), JFloat(5)}
    \cup { JInt(n) : n \in IntValues }
    \cup { JStr(s) : s \in StrValues }

ListValues == { JList(<<>>), JList(<<"route">>), JList(<<"soa">>) }

\* values the classifier can put under "route" or "top_k"
MemberValues == ScalarValues \cup ListValues \cup { JDict(<<>>), JDict(<<"route">>) }

ObjValues ==
  { Obj(hr, IF hr THEN r ELSE JNull, hk, IF hk THEN k ELSE JNull, hs) :
      hr \in BOOLEAN, r \in MemberValues, hk \in BOOLEAN, k \in MemberValues,
      hs \in BOOLEAN }

\* the raw responses of the classifier: text that is no JSON (empty, prose, a
\* fenced block), or the JSON text of a value
NotJson == [json |-> FALSE, parsed |-> Parsed(JNull, EmptyObj)]
RawResponses ==
  {NotJson}
    \cup { [json |-> TRUE, parsed |-> Parsed(v, EmptyObj)] : v \in ScalarValues \cup ListValues }
    \cup { [json |-> TRUE, parsed |-> Parsed(JDict(<<>>), o)] : o \in ObjValues }

\* _safe_json_loads: json.loads(text), or {} on JSONDecodeError
_safe_json_loads(text) ==
  IF text.json THEN text.parsed ELSE Parsed(JDict(<<>>), EmptyObj)

\* bool(data)
Truthy(data) ==
  CASE data.value.t = "none" -> FALSE
    [] data.value.t \in {"bool", "int", "float"} -> data.value.n # 0
    [] data.value.t = "str" -> data.value.s # ""
    [] data.value.t = "list" -> data.value.a # <<>>
    [] data.value.t = "dict" ->
         data.obj.has_route \/ data.obj.has_top_k \/ data.obj.has_reason

\* whether `"route" in data` can be evaluated, and its value
InSupported(data) == data.value.t \in {"str", "list", "dict"}
RouteIn(data) ==
  CASE data.value.t = "str" -> HasSubstringRoute(data.value.s)
    [] data.value.t = "list" -> \E i \in DOMAIN data.value.a : data.value.a[i] = "route"
    [] data.value.t = "dict" -> data.obj.has_route

\* hash(x) works: the value can be looked up in a set
Hashable(v) == v.t \notin {"list", "dict"}

\* isinstance(x, int)
IsInt(v) == v.t \in {"int", "bool"}

Returned(route, top_k_value, reason) ==
  [outcome |-> "returned", error |-> "", route |-> route, top_k |-> top_k_value,
   reason |-> reason]
Raised(error) ==
  [outcome |-> "raised", error |-> error, route |-> JNull, top_k |-> JNull, reason |-> ""]
NotRouted ==
  [outcome |-> "none", error |-> "", route |-> JNull, top_k |-> JNull, reason |-> ""]

Fallback == Returned(JStr("rag"), JInt(DefaultTopK), "fallback")

\* _route_question after generate has returned the raw response
RouteDecision(text) ==
  LET data == _safe_json_loads(text)
  IN  IF ~Truthy(data) THEN Fallback
      ELSE IF ~InSupported(data) THEN Raised("TypeError")
      ELSE IF ~RouteIn(data) THEN Fallback
      ELSE IF data.value.t # "dict" THEN Raised("AttributeError")
      ELSE IF ~Hashable(data.obj.route) THEN Raised("TypeError")
      ELSE Returned(
             IF data.obj.route.t = "str" /\ data.obj.route.s \in Intents
               THEN data.obj.route ELSE JStr("rag"),
             IF IsInt(data.obj.top_k) THEN data.obj.top_k ELSE JInt(DefaultTopK),
             IF data.obj.has_reason THEN "given" ELSE "absent")

(* ============================== segmenters ============================== *)
(* A protocol text is a sequence of lines, joined by "\n" with no trailing  *)
(* newline.  A line is a numbered line (a dotted number, some spaces and a  *)
(* title) or a line of running text; a chunk's content is the sequence of   *)
(* the lines it holds, and a name is a sequence of the strings it is        *)
(* formatted from.                                                          *)
\* most lines of a generated text
MaxLines == 4

Line(number, spaces, title) == [number |-> number, spaces |-> spaces, title |-> title]

\* a line of running text: it holds a character no title class has
Prose == Line(<<>>, 0, "...")

\* the empty line a "\n\n" puts between two parts
EmptyLine == Line(<<>>, 0, "")

\* titles whose alphabetic characters are all upper case, and the others
CapsTitles == { "INTRODUCTION", "METHODS", "RESULTS" }
MixedTitles == { "Design", "Endpoints", "Deep" }

\* len(title)
TitleLen(title) ==
  CASE title = "INTRODUCTION" -> 12
    [] title = "METHODS" -> 7
    [] title = "RESULTS" -> 7
    [] title = "Design" -> 6
    [] title = "Endpoints" -> 9
    [] title = "Deep" -> 4
    [] OTHER -> 0

\* the numbered lines that occur in generated texts
NumberedLines ==
  { Line(<<1>>, 2, "METHODS"), Line(<<2>>, 2, "METHODS"), Line(<<2>>, 2, "RESULTS"),
    Line(<<1>>, 2, "Design"),
    Line(<<1, 1>>, 2, "Design"), Line(<<1, 2>>, 2, "Design"), Line(<<1, 2>>, 2, "Endpoints"),
    Line(<<1, 1, 1>>, 2, "Deep") }

\* a line the title of a header on the line before would run into: the title
\* classes hold digits, spaces and line breaks, but no "."
RunsOn(line) == Len(line.number) = 1

Numbered(line) == line.number # <<>>

\* the generated texts: a one-number line never follows a numbered line directly
GeneratedTexts ==
  { t \in SeqsUpTo(NumberedLines \cup {Prose}, MaxLines) :
      \A i \in 1..(Len(t) - 1) : ~(Numbered(t[i]) /\ RunsOn(t[i + 1])) }

\* "1 INTRODUCTION\n...\n2 METHODS\n2.1 Design\n...\n2.2 Endpoints\n..."
ScenarioA ==
  << Line(<<1>>, 1, "INTRODUCTION"), Prose,
     Line(<<2>>, 1, "METHODS"),
     Line(<<2, 1>>, 1, "Design"), Prose,
     Line(<<2, 2>>, 1, "Endpoints"), Prose >>

\* the same document as a PDF page gives it: after a first line, and with two
\* spaces after each number
ScenarioAWide ==
  << Prose,
     Line(<<1>>, 2, "INTRODUCTION"), Prose,
     Line(<<2>>, 2, "METHODS"),
     Line(<<2, 1>>, 2, "Design"), Prose,
     Line(<<2, 2>>, 2, "Endpoints"), Prose >>

Texts == GeneratedTexts \cup { ScenarioA, ScenarioAWide }

\* number.startswith(current + ".") for dotted numbers
StartsWithDot(number, current) ==
  /\ Len(number) > Len(current)
  /\ SubSeq(number, 1, Len(current)) = current

\* a dict, in insertion order: d[key] = value
DictSet(d, key, value) ==
  IF \E i \in DOMAIN d : d[i].key = key
  THEN [i \in DOMAIN d |-> IF d[i].key = key THEN [key |-> key, value |-> value] ELSE d[i]]
  ELSE Append(d, [key |-> key, value |-> value])

Keys(d) == [i \in DOMAIN d |-> d[i].key]

RECURSIVE JoinWith(_, _)
\* sep.join(parts), parts being strings
JoinWith(parts, sep) ==
  IF parts = <<>> THEN <<>>
  ELSE IF Len(parts) = 1 THEN <<parts[1]>>
  ELSE <<parts[1], sep>> \o JoinWith(Tail(parts), sep)

RECURSIVE Ascending(_)
\* sorted(S) for a set of numbers
Ascending(S) ==
  IF S = {} THEN <<>>
  ELSE LET least == CHOOSE x \in S : \A y \in S : x <= y
       IN  <<least>> \o Ascending(S \ {least})

(* ---------------------- src/src/section_splitter.py --------------------- *)
\* section_pattern and the all-upper-case filter: the line is followed by "\n"
section_pattern(t, i) ==
  /\ i < Len(t)
  /\ Len(t[i].number) = 1
  /\ t[i].spaces >= 1
  /\ t[i].title \in CapsTitles

subsection_pattern(t, i) ==
  /\ i < Len(t)
  /\ Len(t[i].number) = 2
  /\ t[i].spaces >= 1
  /\ t[i].title \in CapsTitles \cup MixedTitles

subsubsection_pattern(t, i) ==
  /\ i < Len(t)
  /\ Len(t[i].number) >= 3
  /\ t[i].spaces >= 1
  /\ t[i].title \in CapsTitles \cup MixedTitles

\* matches, sorted by start: the line indices of the section and subsection headers
matches(t) ==
  Ascending({ i \in DOMAIN t : section_pattern(t, i) \/ subsection_pattern(t, i) })

\* a grouping of the sub-subsection titles by section instead of subsection
subsubsections_by_section(t, number) ==
  LET at == Ascending({ i \in DOMAIN t : /\ subsubsection_pattern(t, i)
                                           /\ t[i].number[1] = number[1] })
  IN  [k \in DOMAIN at |-> t[at[k]].title]

\* subsubsections_by_subsection.get(number, []): the titles in text order
subsubsections_by_subsection(t, number) ==
  LET at == Ascending({ i \in DOMAIN t : /\ subsubsection_pattern(t, i)
                                           /\ SubSeq(t[i].number, 1, 2) = number })
  IN  [k \in DOMAIN at |-> t[at[k]].title]

\* a search that takes the match just before i for the parent
ParentMatchPrevious(t, ms, i) == i - 1

\* the index into ms of the parent section found by the backward search from
\* i - 1, or 0
ParentMatch(t, ms, i) ==
  LET found == { j \in 1..(i - 1) : t[ms[j]].number = <<t[ms[i]].number[1]>> }
  IN  IF found = {} THEN 0 ELSE CHOOSE j \in found : \A other \in found : other <= j

\* the iteration of the loop over matches for the match at index i of ms
SplitStep(t, ms, i, sections) ==
  LET start == ms[i]
      end == IF i + 1 <= Len(ms) THEN ms[i + 1] ELSE Len(t) + 1
      content == SubSeq(t, start, end - 1)
      match == t[start]
  IN  IF Len(match.number) = 1
      THEN LET has_subsections ==
                 i + 1 <= Len(ms) /\ StartsWithDot(t[ms[i + 1]].number, match.number)
           IN  IF has_subsections THEN sections
               ELSE DictSet(sections, <<match.title>>, content)
      ELSE LET p == ParentMatch(t, ms, i)
               parent_content_before_subsection ==
                 IF p = 0 THEN <<>> ELSE SubSeq(t, ms[p] + 1, start - 1)
               titled == IF p = 0 THEN <<match.title>>
                         ELSE <<t[ms[p]].title, ": ", match.title>>
               subs == subsubsections_by_subsection(t, match.number)
               chunk_name == IF subs = <<>> THEN titled
                             ELSE titled \o <<": ">> \o JoinWith(subs, ", ")
               combined_content ==
                 IF p = 0 THEN content
                 ELSE (IF parent_content_before_subsection = <<>> THEN <<EmptyLine>>
                       ELSE parent_content_before_subsection)
                      \o <<EmptyLine>> \o content
           IN  DictSet(sections, chunk_name, combined_content)

RECURSIVE SplitFrom(_, _, _, _)
SplitFrom(t, ms, i, sections) ==
  IF i > Len(ms) THEN sections
  ELSE SplitFrom(t, ms, i + 1, SplitStep(t, ms, i, sections))

\* split_into_sections(text)
split_into_sections(t) == SplitFrom(t, matches(t), 1, <<>>)

(* --------------------- src/src/structure_chunker.py --------------------- *)
\* SECTION_REGEX: after a "\n", two spaces or more, an upper-case title, a "\n"
SECTION_REGEX(t, i) ==
  /\ 1 < i /\ i < Len(t)
  /\ Len(t[i].number) = 1
  /\ t[i].spaces >= 2
  /\ t[i].title \in CapsTitles

SUBSECTION_REGEX(t, i) ==
  /\ 1 < i /\ i < Len(t)
  /\ Len(t[i].number) >= 2
  /\ t[i].spaces >= 2
  /\ t[i].title \in CapsTitles \cup MixedTitles

\* extract_headers(text): the line indices of the headers, sorted by start
extract_headers(t) ==
  Ascending({ i \in DOMAIN t : SECTION_REGEX(t, i) \/ SUBSECTION_REGEX(t, i) })

\* number in header_map
InHeaderMap(t, headers, number) == \E k \in DOMAIN headers : t[headers[k]].number = number

\* header_map[number]: the title of the last header with that number
header_map(t, headers, number) ==
  LET last == CHOOSE k \in DOMAIN headers :
                /\ t[headers[k]].number = number
                /\ \A other \in DOMAIN headers :
                     t[headers[other]].number = number => other <= k
  IN  t[headers[last]].title

has_child(t, headers, idx) ==
  IF idx >= Len(headers) THEN FALSE
  ELSE StartsWithDot(t[headers[idx + 1]].number, t[headers[idx]].number)

\* the StructuredChunk of the leaf header at index i of headers
StructuredChunk(t, headers, i) ==
  LET header == t[headers[i]]
      start == headers[i]
      end == IF i + 1 <= Len(headers) THEN headers[i + 1] ELSE Len(t) + 1
      parts == header.number
      known == Ascending({ j \in 1..(Len(parts) - 1) :
                             InHeaderMap(t, headers, SubSeq(parts, 1, j)) })
      ancestors == [k \in DOMAIN known |-> header_map(t, headers, SubSeq(parts, 1, known[k]))]
  IN  [chunk_id |-> <<"sec_">> \o parts,
       section_id |-> parts,
       level |-> Len(parts),
       title |-> header.title,
       full_title |-> JoinWith(Append(ancestors, header.title), " > "),
       parent_id |-> SubSeq(parts, 1, Len(parts) - 1),
       content |-> SubSeq(t, start, end - 1)]

\* build_structured_chunks(text)
build_structured_chunks(t) ==
  LET headers == extract_headers(t)
      leaves == Ascending({ i \in DOMAIN headers : ~has_child(t, headers, i) })
  IN  [k \in DOMAIN leaves |-> StructuredChunk(t, headers, leaves[k])]

(* ------------------ src/src/rag.py: split_into_sections_regex ------------ *)
\* SECTION_HEADER_PATTERN: a whole line, numbered or not, whose title is five
\* upper-case characters or more
SECTION_HEADER_PATTERN(t, i) ==
  /\ Numbered(t[i]) => t[i].spaces >= 1
  /\ t[i].title \in CapsTitles
  /\ TitleLen(t[i].title) >= 5

full_document == <<"full_document">>

\* match.group(0).strip(): the number, the spaces and the title
HeaderText(line) == <<line.number, line.spaces, line.title>>

RECURSIVE RegexSplitFrom(_, _, _, _)
RegexSplitFrom(t, ms, i, sections) ==
  IF i > Len(ms) THEN sections
  ELSE LET end == IF i + 1 <= Len(ms) THEN ms[i + 1] ELSE Len(t) + 1
       IN  RegexSplitFrom(t, ms, i + 1,
             DictSet(sections, HeaderText(t[ms[i]]), SubSeq(t, ms[i] + 1, end - 1)))

\* split_into_sections_regex(text)
split_into_sections_regex(t) ==
  LET ms == Ascending({ i \in DOMAIN t : SECTION_HEADER_PATTERN(t, i) })
  IN  IF ms = <<>> THEN << [key |-> full_document, value |-> t] >>
      ELSE RegexSplitFrom(t, ms, 1, <<>>)

(* ============================== extractors ============================== *)
(* src/src/agents.py and src/src/schemas.py.  The reply of generate to an   *)
(* extraction prompt is a payload: what json.loads makes of it, which keys  *)
(* a top-level object has, whether the values under the schema's keys have  *)
(* the schema's types, and whether the text is wrapped in a ``` fence.      *)
Extractors == { "objectives", "eligibility", "soa", "visit_definitions", "key_assessments" }

\* the fields of the pydantic model an extractor validates with (none for soa)
SchemaFields(route) ==
  CASE route = "objectives" -> { "primary", "secondary", "exploratory", "other" }
    [] route = "eligibility" -> { "inclusion", "exclusion" }
    [] route = "visit_definitions" -> { "visits" }
    [] route = "key_assessments" -> { "assessments" }
    [] OTHER -> {}

\* the fields declared without a default
RequiredFields(route) == IF route = "key_assessments" THEN { "assessments" } ELSE {}

\* a key no schema declares
UnknownKey == "unknown"

\* json.loads results: no JSON at all, null, a non-empty array, an object
PayloadKinds == { "unparseable", "null", "list", "dict" }

Payload(kind, keys, typed, fenced) ==
  [kind |-> kind, keys |-> keys, typed |-> typed, fenced |-> fenced]

NoPayload == Payload("none", {}, TRUE, FALSE)

\* the payloads generate can reply with to the prompt of an extractor
Payloads(route) ==
  { Payload(kind, {}, TRUE, fenced) : kind \in PayloadKinds \ {"dict"}, fenced \in BOOLEAN }
    \cup { Payload("dict", keys, typed, fenced) :
             keys \in SUBSET (SchemaFields(route) \cup {UnknownKey}),
             typed \in BOOLEAN, fenced \in BOOLEAN }

Outcome(outcome, error, kind, fields) ==
  [outcome |-> outcome, error |-> error, kind |-> kind, fields |-> fields]

NotExtracted == Outcome("none", "", "none", {})

\* the exception that leaves an extraction
ExtractionRaised(error) == Outcome("raised", error, "none", {})

\* extract_json_from_llm_output(raw_output): the fence is removed and the text
\* inside goes to json.loads
extract_json_from_llm_output(payload) ==
  IF payload.kind = "unparseable" THEN ExtractionRaised("JSONDecodeError")
  ELSE Outcome("returned", "", payload.kind, payload.keys)

\* Model(**parsed) for the pydantic model of the route: ** needs a mapping,
\* keys the model does not declare are ignored, missing fields take their
\* defaults, a missing required field or a value of the wrong type is an error
Model(route, parsed) ==
  IF parsed.kind # "dict" THEN ExtractionRaised("TypeError")
  ELSE IF \/ ~(RequiredFields(route) \subseteq parsed.keys)
          \/ (~parsed.typed /\ parsed.keys \cap SchemaFields(route) # {})
       THEN ExtractionRaised("ValidationError")
       ELSE Outcome("returned", "", "model", parsed.keys \cap SchemaFields(route))

\* extract_objectives, extract_eligibility, extract_soa,
\* extract_visit_definitions, extract_key_assessments on the reply of generate
Extract(route, payload) ==
  IF route = "soa" THEN Outcome("returned", "", "raw_text", payload.keys)
  ELSE LET parsed == extract_json_from_llm_output(payload)
       IN  IF parsed.outcome = "raised" THEN parsed
           ELSE Model(route, payload)

\* _serialize_response(obj), then for a str: _safe_json_loads(answer) or answer
Serialized(answer_raw, payload) ==
  IF answer_raw.kind # "raw_text" THEN answer_raw
  ELSE IF \/ payload.fenced
          \/ payload.kind \in {"unparseable", "null"}
          \/ (payload.kind = "dict" /\ payload.keys = {})
       THEN answer_raw
       ELSE Outcome("returned", "", "parsed_json", payload.keys)

\* DocumentMultiAgent._run_specialized_agent(route, num_sections): the "answer"
\* of the dict it returns, or the exception of the extractor
_run_specialized_agent(route, payload) ==
  LET answer_raw == Extract(route, payload)
  IN  IF answer_raw.outcome = "raised" THEN answer_raw
      ELSE Serialized(answer_raw, payload)

(* =============================== windowing ============================== *)
(* src/src/rag.py, _build_documents_from_sections: the content of a section *)
(* goes to RecursiveCharacterTextSplitter.split_text.  A content is a       *)
(* sequence of lines, rows of a pipe-delimited table or prose, joined by    *)
(* "\n" and holding none of the separators tried before "\n"; a line's      *)
(* length counts the "\n" the splitter keeps in front of it.                *)
\* most lines of a section's content
MaxContentLines == 4

chunk_size == 800
chunk_overlap == 150

ContentLine(table, length) == [table |-> table, len |-> length]

ContentLines == { ContentLine(table, length) : table \in BOOLEAN, length \in {100, 500} }

SectionContents == SeqsUpTo(ContentLines, MaxContentLines) \ { <<>> }

RECURSIVE SumLens(_)
\* the length of the pieces held in current_doc
SumLens(pieces) == IF pieces = <<>> THEN 0 ELSE Head(pieces).len + SumLens(Tail(pieces))

RECURSIVE PopFront(_, _)
\* _merge_splits, the while loop: pieces leave current_doc from the front until
\* what stays is within chunk_overlap and leaves room for the next piece
PopFront(current_doc, length) ==
  LET total == SumLens(current_doc)
  IN  IF total > chunk_overlap \/ (total + length > chunk_size /\ total > 0)
      THEN PopFront(Tail(current_doc), length)
      ELSE current_doc

RECURSIVE MergeSplits(_, _, _)
\* _merge_splits(splits, ""): the chunks made of the pieces, each a sequence of
\* lines
MergeSplits(splits, current_doc, docs) ==
  IF splits = <<>>
  THEN IF current_doc = <<>> THEN docs ELSE Append(docs, current_doc)
  ELSE LET d == Head(splits)
           full == SumLens(current_doc) + d.len > chunk_size
           emitted == IF full /\ current_doc # <<>> THEN Append(docs, current_doc) ELSE docs
           kept == IF full /\ current_doc # <<>> THEN PopFront(current_doc, d.len)
                   ELSE current_doc
       IN  MergeSplits(Tail(splits), Append(kept, d), emitted)

\* splitter.split_text(content): the content is cut at "\n", every line is
\* shorter than chunk_size, and the lines are merged into chunks
split_text(content) == MergeSplits(content, <<>>, <<>>)

(* ============================ agent dispatch ============================ *)
(* src/src/multiagent.py, DocumentMultiAgent.answer: the routing decision   *)
(* picks _run_rag or _run_specialized_agent, whose result is returned as a  *)
(* JSON string.                                                             *)
\* the keys of TARGET_QUERIES in section_classifier.py
TARGET_QUERIES ==
  { "objectives and endpoints", "eligibility", "schedule of activities", "visit_definitions" }

\* target of _run_specialized_agent for a route; the last branch is an else
Target(route) ==
  CASE route = "objectives" -> "objectives and endpoints"
    [] route = "eligibility" -> "eligibility"
    [] route = "soa" -> "schedule of activities"
    [] route = "visit_definitions" -> "visit_definitions"
    [] OTHER -> "key_assessments"

\* output of _run_specialized_agent for a route: the extractor it calls
Output(route) ==
  CASE route = "objectives" -> "objectives"
    [] route = "eligibility" -> "eligibility"
    [] route = "soa" -> "soa"
    [] route = "visit_definitions" -> "visit_definitions"
    [] OTHER -> "key_assessments"

Reply(outcome, error, handler, keys) ==
  [outcome |-> outcome, error |-> error, handler |-> handler, keys |-> keys]

NoReply == Reply("none", "", "none", {})

\* _select_sections(target, num_sections): TARGET_QUERIES[target] raises
\* KeyError for a target that is no key; "" when it returns
_select_sections(target) == IF target \in TARGET_QUERIES THEN "" ELSE "KeyError"

\* DocumentMultiAgent.answer(question) for the route of the routing decision
\* and the reply generate gives the extractor: the handler that ran and what
\* answer returned (the keys of the JSON object) or raised
AgentAnswer(route, reply) ==
  IF route = "rag"
  THEN Reply("raised", "AttributeError", "_run_rag", {})
  ELSE IF _select_sections(Target(route)) # ""
       THEN Reply("raised", _select_sections(Target(route)), "_select_sections", {})
       ELSE LET answer == _run_specialized_agent(Output(route), reply)
            IN  IF answer.outcome = "raised"
                THEN Reply("raised", answer.error, Output(route), {})
                ELSE Reply("returned", "", Output(route),
                           {"route", "answer", "question", "routing"})

(* ========================= structured retriever ========================= *)
(* src/src/structured_retriever.py, BM25StructuredRetriever: the chunks are *)
(* ranked by the BM25 score of their title for the agent's query; the       *)
(* scores are what BM25Okapi.get_scores gives, one number per chunk.        *)
\* most chunks of a retriever
MaxChunks == 3

\* highest BM25 score of a chunk
MaxScore == 2

\* the StructuredChunk at index i of the list the retriever is built on
RetrieverChunk(i) == [section_id |-> i, full_title |-> <<"T">>, content |-> <<"c">>]

\* BM25StructuredRetriever(chunks, target_queries) on n chunks
BM25StructuredRetriever(n, target_queries) ==
  [chunks |-> [i \in 1..n |-> RetrieverChunk(i)], target_queries |-> target_queries]

NoRetriever == [chunks |-> <<>>, target_queries |-> {}]

\* the keys of the target_queries the retriever is built with
RetrieverTargets == {"objectives", "eligibility"}

\* the agent names of the calls: a key of target_queries, and a name that is none
AgentNames == {"objectives", "unlisted"}

\* self.bm25.get_scores(tokenized_query): one score per chunk
RetrieverScores(self) == [DOMAIN self.chunks -> (-1)..MaxScore]

Retrieval(method, agent_name, k, scores, outcome, error, results, context) ==
  [method |-> method, agent_name |-> agent_name, top_k |-> k, scores |-> scores,
   outcome |-> outcome, error |-> error, results |-> results, context |-> context]

NoRetrieval == Retrieval("none", "", 0, <<>>, "none", "", <<>>, <<>>)

RECURSIVE CollectPositive(_, _, _, _, _)
\* the loop of retrieve_chunks over ranked_indices: a score <= 0 is skipped,
\* the chunk is appended, and only then is len(results) >= top_k tested
CollectPositive(self, ranked_indices, scores, k, results) ==
  IF ranked_indices = <<>> THEN results
  ELSE LET idx == Head(ranked_indices)
       IN  IF scores[idx] <= 0
           THEN CollectPositive(self, Tail(ranked_indices), scores, k, results)
           ELSE LET appended == Append(results, self.chunks[idx])
                IN  IF Len(appended) >= k THEN appended
                    ELSE CollectPositive(self, Tail(ranked_indices), scores, k, appended)

\* retrieve_chunks(agent_name, top_k), the scores being those of the agent's query
retrieve_chunks(self, agent_name, scores, k) ==
  IF agent_name \notin self.target_queries
  THEN Retrieval("retrieve_chunks", agent_name, k, scores, "raised", "ValueError", <<>>, <<>>)
  ELSE LET ranked_indices == SortedReverse([i \in DOMAIN scores |-> i], scores)
       IN  Retrieval("retrieve_chunks", agent_name, k, scores, "returned", "",
                     CollectPositive(self, ranked_indices, scores, k, <<>>), <<>>)

NoRelevantSections == <<"No relevant sections found.">>

\* section_block of retrieve_context, stripped
SectionBlock(chunk) ==
  <<"====", "\n", "Section ID: ", chunk.section_id, "\n", "Section Path: ">>
    \o chunk.full_title \o <<"\n", "====", "\n", "\n">> \o chunk.content

RECURSIVE JoinBlocks(_)
\* "\n\n".join(combined_sections)
JoinBlocks(blocks) ==
  IF blocks = <<>> THEN <<>>
  ELSE IF Len(blocks) = 1 THEN blocks[1]
  ELSE blocks[1] \o <<"\n\n">> \o JoinBlocks(Tail(blocks))

\* retrieve_context(agent_name, top_k)
retrieve_context(self, agent_name, scores, k) ==
  LET retrieved_chunks == retrieve_chunks(self, agent_name, scores, k)
  IN  IF retrieved_chunks.outcome = "raised"
      THEN [retrieved_chunks EXCEPT !.method = "retrieve_context"]
      ELSE [retrieved_chunks EXCEPT
              !.method = "retrieve_context",
              !.context = IF retrieved_chunks.results = <<>> THEN NoRelevantSections
                          ELSE JoinBlocks([i \in DOMAIN retrieved_chunks.results |->
                                             SectionBlock(retrieved_chunks.results[i])])]

(* -------------------------------- state --------------------------------- *)
VARIABLES
  phase,              \* "new": no index yet; "ready": index built; "served": a call returned
  persist_dir,        \* "none" or "dir": the persist_dir the index is built with
  disk,               \* the bundle at persist_dir
  store,              \* RAGIndex.store: the docs of the FAISS docstore
  documents,          \* RAGIndex.documents: the corpus of the BM25 index
  origin,             \* how the index was made: "none", "built" or "loaded"
  call,               \* the method that returned last: "none", "hybrid_search", "answer"
  top_k,              \* its top_k
  max_context_chars,  \* its max_context_chars (answer)
  dense_docs,         \* hybrid_search: dense_docs
  bm25_docs,          \* hybrid_search: bm25_docs
  rrf_scores,         \* hybrid_search: rrf_scores
  hits,               \* what hybrid_search returned
  context_blocks,     \* answer: context_blocks
  result,             \* what answer returned: <<text, context>>
  gen_calls,          \* calls of generate made by the last method call
  raw,                \* _route_question: the classifier's raw response
  routing,            \* what _route_question returned or raised
  protocol_text,      \* the text handed to a segmenter
  segmenter,          \* the segmenter that returned last, or "none"
  chunks,             \* what build_structured_chunks returned
  named_sections,     \* what split_into_sections / split_into_sections_regex returned
  extractor,          \* the route of the extraction that returned last, or "none"
  extract_call,       \* "extract" (the extract_ function) or "_run_specialized_agent"
  payload,            \* the reply of generate to the extraction prompt
  extraction,         \* what the call returned or raised
  section_content,    \* the content of the section _build_documents_from_sections got
  windows,            \* the documents it returned
  agent_route,        \* DocumentMultiAgent.answer: the route of the routing decision
  agent_reply,        \* what DocumentMultiAgent.answer returned or raised
  retriever,          \* the BM25StructuredRetriever: its chunks and target_queries
  retrieval,          \* the last call of retrieve_chunks / retrieve_context
  use_existing_arg,   \* the use_existing of the build call, where a specification records it
  text_arg,           \* the sections of its text, where a specification records them
  raised,             \* the exception the last call left its caller with, or ""
  retrieved           \* the hits the last call handed to its caller

rag_vars == <<phase, persist_dir, disk, store, documents, origin, call, top_k, max_context_chars,
              dense_docs, bm25_docs, rrf_scores, hits, context_blocks, result, gen_calls,
              use_existing_arg, text_arg, raised, retrieved>>
query_vars == <<call, top_k, max_context_chars, dense_docs, bm25_docs, rrf_scores, hits,
                context_blocks, result, gen_calls, raised, retrieved>>
router_vars == <<raw, routing>>
segment_vars == <<protocol_text, segmenter, chunks, named_sections>>
extract_vars == <<extractor, extract_call, payload, extraction>>
window_vars == <<section_content, windows>>
agent_vars == <<agent_route, agent_reply>>
retriever_vars == <<retriever, retrieval>>
more_vars == <<agent_vars, retriever_vars>>
lib_vars == <<segment_vars, extract_vars, window_vars, more_vars>>
vars == <<rag_vars, router_vars, lib_vars>>

NoResult == <<>>

\* _route_question has not been called
RouterIdle == raw = NotJson /\ routing = NotRouted

\* no segmenter has been called, or its result was dropped
NoSegments ==
  /\ protocol_text = <<>>
  /\ segmenter = "none"
  /\ chunks = <<>>
  /\ named_sections = <<>>

\* no extractor has been called, or its result was dropped
NoExtraction ==
  /\ extractor = "none"
  /\ extract_call = "none"
  /\ payload = NoPayload
  /\ extraction = NotExtracted

\* _build_documents_from_sections has not been called, or its result was dropped
NoWindows ==
  /\ section_content = <<>>
  /\ windows = <<>>

\* DocumentMultiAgent.answer has not been called, or its result was dropped
NoAgentCall ==
  /\ agent_route = "none"
  /\ agent_reply = NoReply

\* no BM25StructuredRetriever has been built
RetrieverIdle ==
  /\ retriever = NoRetriever
  /\ retrieval = NoRetrieval

LibIdle == NoSegments /\ NoExtraction /\ NoWindows /\ NoAgentCall /\ RetrieverIdle

\* no method of the index has been called, or its result was dropped
NoQuery ==
  /\ call = "none"
  /\ top_k = 0
  /\ max_context_chars = 0
  /\ dense_docs = <<>>
  /\ bm25_docs = <<>>
  /\ rrf_scores = EmptyScores
  /\ hits = <<>>
  /\ context_blocks = <<>>
  /\ result = NoResult
  /\ gen_calls = 0
  /\ raised = ""
  /\ retrieved = <<>>

(* ------------------------------ index build ----------------------------- *)
\* a load that loses the last docstore entry when listing the documents
LoadDropsLast(bundle) ==
  [store |-> bundle.docs, documents |-> SubSeq(bundle.docs, 1, Len(bundle.docs) - 1)]

\* RAGIndex.load: the store is read from persist_dir and the documents are the
\* values of its docstore
RAGIndexLoad(bundle) ==
  [store |-> bundle.docs, documents |-> bundle.docs]

\* FAISS.from_documents(documents) then RAGIndex(store, documents)
RAGIndexBuild(sections) ==
  LET docs == _build_documents_from_sections(sections)
  IN  [store |-> docs, documents |-> docs]

\* build_rag_index_from_text(text, persist_dir, use_existing); the text enters as
\* the sections it splits into
BuildRagIndexFromText(sections, use_existing) ==
  /\ phase = "new"
  /\ IF persist_dir = "dir" /\ use_existing /\ disk.exists
     THEN /\ store' = RAGIndexLoad(disk).store
          /\ documents' = RAGIndexLoad(disk).documents
          /\ origin' = "loaded"
          /\ disk' = disk
     ELSE /\ store' = RAGIndexBuild(sections).store
          /\ documents' = RAGIndexBuild(sections).documents
          /\ origin' = "built"
          /\ disk' = IF persist_dir = "dir" THEN Bundle(store') ELSE disk
  /\ phase' = "ready"
  /\ UNCHANGED <<persist_dir, query_vars, router_vars, lib_vars>>

(* ------------------------------- queries -------------------------------- *)
\* RAGIndex.hybrid_search(question, top_k); the question enters as the dense
\* ranking and the BM25 ranking it produces
HybridSearch ==
  /\ phase = "ready"
  /\ \E k \in 0..MaxTopK :
       \E dense \in DenseLists(store, k), lexical \in Bm25Lists(documents, k) :
         /\ call' = "hybrid_search"
         /\ top_k' = k
         /\ dense_docs' = dense
         /\ bm25_docs' = lexical
         /\ rrf_scores' = RrfScores(dense, lexical)
         /\ hits' = Fuse(dense, lexical, k)
  /\ phase' = "served"
  /\ UNCHANGED <<persist_dir, disk, store, documents, origin, use_existing_arg, text_arg,
                 max_context_chars, context_blocks, result, gen_calls, raised, retrieved,
                 router_vars, lib_vars>>

\* the branch of answer taken for a list of hits: [blocks, result, gen_calls];
\* this one calls the generation service whatever the hits are
AnswerAlwaysGenerates(docs, budget, generated) ==
  LET blocks == Assemble(docs, 0, budget)
  IN  [blocks |-> blocks,
       result |-> <<Strip(generated), Join(blocks, <<"\n", "\n">>)>>,
       gen_calls |-> 1]

\* lines 200-235 of answer, for the docs hybrid_search returned
AnswerFor(docs, budget, generated) ==
  IF docs = <<>>
  THEN [blocks |-> <<>>, result |-> <<NotFound, <<>>>>, gen_calls |-> 0]
  ELSE LET blocks == Assemble(docs, 0, budget)
       IN  [blocks |-> blocks,
            result |-> <<Strip(generated), Join(blocks, <<"\n", "\n">>)>>,
            gen_calls |-> 1]

\* RAGIndex.answer(question, top_k, max_context_chars); generate's reply is an input
Answer ==
  /\ phase = "ready"
  /\ \E k \in 0..MaxTopK :
       \E dense \in DenseLists(store, k), lexical \in Bm25Lists(documents, k) :
         LET docs == Fuse(dense, lexical, k)
         IN  /\ top_k' = k
             /\ dense_docs' = dense
             /\ bm25_docs' = lexical
             /\ rrf_scores' = RrfScores(dense, lexical)
             /\ hits' = docs
             /\ \E budget \in 0..MaxContextChars, generated \in GenOutputs :
                  LET out == AnswerFor(docs, budget, generated)
                  IN  /\ max_context_chars' = budget
                      /\ context_blocks' = out.blocks
                      /\ result' = out.result
                      /\ gen_calls' = out.gen_calls
  /\ call' = "answer"
  /\ phase' = "served"
  /\ UNCHANGED <<persist_dir, disk, store, documents, origin, use_existing_arg, text_arg, raised, retrieved,
                 router_vars, lib_vars>>

\* the caller is done with the reply; the index is unchanged and serves the next call
NextQuestion ==
  /\ phase = "served"
  /\ phase' = "ready"
  /\ call' = "none"
  /\ top_k' = 0
  /\ max_context_chars' = 0
  /\ dense_docs' = <<>>
  /\ bm25_docs' = <<>>
  /\ rrf_scores' = EmptyScores
  /\ hits' = <<>>
  /\ context_blocks' = <<>>
  /\ result' = NoResult
  /\ gen_calls' = 0
  /\ raised' = ""
  /\ retrieved' = <<>>
  /\ UNCHANGED <<persist_dir, disk, store, documents, origin, use_existing_arg, text_arg, router_vars,
                 lib_vars>>


Init ==
  /\ phase = "new"
  /\ persist_dir \in {"none", "dir"}
  /\ disk \in IF persist_dir = "dir"
              THEN {NoBundle} \cup { Bundle(RAGIndexBuild(s).store) : s \in SectionLists }
              ELSE {NoBundle}
  /\ store = <<>>
  /\ documents = <<>>
  /\ origin = "none"
  /\ use_existing_arg = FALSE
  /\ text_arg = <<>>
  /\ NoQuery
  /\ RouterIdle
  /\ LibIdle

Next ==
  \/ \E s \in SectionLists, u \in BOOLEAN :
       BuildRagIndexFromText(s, u) /\ UNCHANGED <<use_existing_arg, text_arg>>
  \/ HybridSearch
  \/ Answer
  \/ NextQuestion

Spec == Init /\ [][Next]_vars

(* --------------------------- failing collaborators ---------------------- *)
\* what the caller of answer has when generate raises
GenerationError == "GenerationError"

\* RAGIndex.answer(question, top_k, max_context_chars) when generate raises: the
\* hits and the context are computed, the exception leaves answer
AnswerGenerateRaises ==
  /\ phase = "ready"
  /\ \E k \in 0..MaxTopK :
       \E dense \in DenseLists(store, k), lexical \in Bm25Lists(documents, k) :
         LET docs == Fuse(dense, lexical, k)
         IN  /\ docs # <<>>
             /\ top_k' = k
             /\ dense_docs' = dense
             /\ bm25_docs' = lexical
             /\ rrf_scores' = RrfScores(dense, lexical)
             /\ hits' = docs
             /\ \E budget \in 0..MaxContextChars :
                  /\ max_context_chars' = budget
                  /\ context_blocks' = Assemble(docs, 0, budget)
  /\ gen_calls' = 1
  /\ result' = NoResult
  /\ raised' = GenerationError
  /\ retrieved' = <<>>
  /\ call' = "answer"
  /\ phase' = "served"
  /\ UNCHANGED <<persist_dir, disk, store, documents, origin, use_existing_arg, text_arg, router_vars,
                 lib_vars>>

\* DocumentMultiAgent._run_rag(question, top_k): RAGIndex has no attribute query,
\* so its first statement raises
RunRag ==
  /\ phase = "ready"
  /\ \E k \in 0..MaxTopK : top_k' = k
  /\ call' = "_run_rag"
  /\ raised' = "AttributeError"
  /\ retrieved' = <<>>
  /\ phase' = "served"
  /\ UNCHANGED <<persist_dir, disk, store, documents, origin, use_existing_arg, text_arg,
                 max_context_chars, dense_docs, bm25_docs, rrf_scores, hits, context_blocks,
                 result, gen_calls, router_vars, lib_vars>>

NextDegraded ==
  \/ Next
  \/ AnswerGenerateRaises
  \/ RunRag

SpecDegraded == Init /\ [][NextDegraded]_vars

\* the build call alone, with the use_existing it was given on record
BuildCall ==
  \E s \in SectionLists, u \in BOOLEAN :
    BuildRagIndexFromText(s, u) /\ use_existing_arg' = u /\ UNCHANGED text_arg

SpecBuild == Init /\ [][BuildCall]_vars

\* a build call with its text and its use_existing on record
BuildCallOnText ==
  \E s \in SectionLists, u \in BOOLEAN :
    BuildRagIndexFromText(s, u) /\ use_existing_arg' = u /\ text_arg' = s

\* the caller drops the index; persist_dir and the bundle in it stay for the
\* next call of build_rag_index_from_text
IndexDropped ==
  /\ phase = "ready"
  /\ phase' = "new"
  /\ store' = <<>>
  /\ documents' = <<>>
  /\ origin' = "none"
  /\ use_existing_arg' = FALSE
  /\ text_arg' = <<>>
  /\ UNCHANGED <<persist_dir, disk, query_vars, router_vars, lib_vars>>

\* no call has been made yet: persist_dir holds no bundle
InitBuilds == Init /\ disk = NoBundle

NextBuilds ==
  \/ BuildCallOnText
  \/ IndexDropped

\* a sequence of build calls that share one persist_dir
SpecBuilds == InitBuilds /\ [][NextBuilds]_vars

\* _route_question(question): one call of generate, whose reply is an input
RouteQuestion ==
  /\ routing = NotRouted
  /\ \E text \in RawResponses :
       /\ raw' = text
       /\ routing' = RouteDecision(text)
  /\ UNCHANGED <<rag_vars, lib_vars>>

\* the decision (or the exception) has been handed to the caller
RouteDone ==
  /\ routing # NotRouted
  /\ raw' = NotJson
  /\ routing' = NotRouted
  /\ UNCHANGED <<rag_vars, lib_vars>>

InitRouter ==
  /\ phase = "new"
  /\ persist_dir = "none"
  /\ disk = NoBundle
  /\ store = <<>>
  /\ documents = <<>>
  /\ origin = "none"
  /\ use_existing_arg = FALSE
  /\ text_arg = <<>>
  /\ NoQuery
  /\ RouterIdle
  /\ LibIdle

NextRouter == RouteQuestion \/ RouteDone

SpecRouter == InitRouter /\ [][NextRouter]_vars

(* ------------------------------ segmentation ---------------------------- *)
\* build_structured_chunks(text)
BuildStructuredChunks ==
  /\ segmenter = "none"
  /\ \E t \in Texts :
       /\ protocol_text' = t
       /\ chunks' = build_structured_chunks(t)
  /\ segmenter' = "build_structured_chunks"
  /\ named_sections' = <<>>
  /\ UNCHANGED <<rag_vars, router_vars, extract_vars, window_vars, more_vars>>

\* split_into_sections(text)
SplitIntoSections ==
  /\ segmenter = "none"
  /\ \E t \in Texts :
       /\ protocol_text' = t
       /\ named_sections' = split_into_sections(t)
  /\ segmenter' = "split_into_sections"
  /\ chunks' = <<>>
  /\ UNCHANGED <<rag_vars, router_vars, extract_vars, window_vars, more_vars>>

\* split_into_sections_regex(text)
SplitIntoSectionsRegex ==
  /\ segmenter = "none"
  /\ \E t \in Texts :
       /\ protocol_text' = t
       /\ named_sections' = split_into_sections_regex(t)
  /\ segmenter' = "split_into_sections_regex"
  /\ chunks' = <<>>
  /\ UNCHANGED <<rag_vars, router_vars, extract_vars, window_vars, more_vars>>

\* the caller has taken the chunks
SegmentsDone ==
  /\ segmenter # "none"
  /\ protocol_text' = <<>>
  /\ segmenter' = "none"
  /\ chunks' = <<>>
  /\ named_sections' = <<>>
  /\ UNCHANGED <<rag_vars, router_vars, extract_vars, window_vars, more_vars>>

InitSegment ==
  /\ phase = "new"
  /\ persist_dir = "none"
  /\ disk = NoBundle
  /\ store = <<>>
  /\ documents = <<>>
  /\ origin = "none"
  /\ use_existing_arg = FALSE
  /\ text_arg = <<>>
  /\ NoQuery
  /\ RouterIdle
  /\ LibIdle

NextSegment ==
  \/ BuildStructuredChunks
  \/ SplitIntoSections
  \/ SplitIntoSectionsRegex
  \/ SegmentsDone

SpecSegment == InitSegment /\ [][NextSegment]_vars

(* ------------------------------- extraction ----------------------------- *)
\* extract_<route>(content): one call of generate, whose reply is an input
ExtractCall ==
  /\ extractor = "none"
  /\ \E route \in Extractors :
       \E reply \in Payloads(route) :
         /\ extractor' = route
         /\ payload' = reply
         /\ extraction' = Extract(route, reply)
  /\ extract_call' = "extract"
  /\ UNCHANGED <<rag_vars, router_vars, segment_vars, window_vars, more_vars>>

\* DocumentMultiAgent._run_specialized_agent(route, num_sections)
RunSpecializedAgent ==
  /\ extractor = "none"
  /\ \E route \in Extractors :
       \E reply \in Payloads(route) :
         /\ extractor' = route
         /\ payload' = reply
         /\ extraction' = _run_specialized_agent(route, reply)
  /\ extract_call' = "_run_specialized_agent"
  /\ UNCHANGED <<rag_vars, router_vars, segment_vars, window_vars, more_vars>>

\* the caller has taken the result
ExtractionDone ==
  /\ extractor # "none"
  /\ extractor' = "none"
  /\ extract_call' = "none"
  /\ payload' = NoPayload
  /\ extraction' = NotExtracted
  /\ UNCHANGED <<rag_vars, router_vars, segment_vars, window_vars, more_vars>>

NextExtract ==
  \/ ExtractCall
  \/ RunSpecializedAgent
  \/ ExtractionDone

SpecExtract == InitSegment /\ [][NextExtract]_vars

(* -------------------------------- windowing ----------------------------- *)
\* _build_documents_from_sections({title: content})
BuildDocumentsFromSections ==
  /\ section_content = <<>>
  /\ \E title \in Titles, content \in SectionContents :
       /\ section_content' = content
       /\ windows' = _build_documents_from_sections(
                        << [title |-> title, chunks |-> split_text(content)] >>)
  /\ UNCHANGED <<rag_vars, router_vars, segment_vars, extract_vars, more_vars>>

\* the caller has taken the documents
DocumentsDone ==
  /\ section_content # <<>>
  /\ section_content' = <<>>
  /\ windows' = <<>>
  /\ UNCHANGED <<rag_vars, router_vars, segment_vars, extract_vars, more_vars>>

NextWindow ==
  \/ BuildDocumentsFromSections
  \/ DocumentsDone

SpecWindow == InitSegment /\ [][NextWindow]_vars

(* ------------------------------ agent dispatch -------------------------- *)
\* DocumentMultiAgent.answer(question) whose routing decision has the route;
\* the reply of generate is the one the extractor of a structured route gets
DocumentMultiAgentAnswer ==
  /\ agent_route = "none"
  /\ \E route \in Intents :
       \E reply \in (IF route = "rag" THEN {NoPayload} ELSE Payloads(Output(route))) :
         /\ agent_route' = route
         /\ payload' = reply
         /\ agent_reply' = AgentAnswer(route, reply)
  /\ UNCHANGED <<rag_vars, router_vars, segment_vars, window_vars, retriever_vars>>
  /\ UNCHANGED <<extractor, extract_call, extraction>>

\* the caller has taken the JSON string, or the exception
AgentDone ==
  /\ agent_route # "none"
  /\ agent_route' = "none"
  /\ agent_reply' = NoReply
  /\ payload' = NoPayload
  /\ UNCHANGED <<rag_vars, router_vars, segment_vars, window_vars, retriever_vars>>
  /\ UNCHANGED <<extractor, extract_call, extraction>>

NextAgent ==
  \/ DocumentMultiAgentAnswer
  \/ AgentDone

SpecAgent == InitSegment /\ [][NextAgent]_vars

(* --------------------------- structured retriever ----------------------- *)
\* BM25StructuredRetriever(chunks, target_queries); BM25Okapi needs a corpus
\* that is not empty
BuildRetriever ==
  /\ retriever = NoRetriever
  /\ \E n \in 1..MaxChunks : retriever' = BM25StructuredRetriever(n, RetrieverTargets)
  /\ UNCHANGED retrieval
  /\ UNCHANGED <<rag_vars, router_vars, segment_vars, extract_vars, window_vars, agent_vars>>

\* retrieve_chunks(agent_name, top_k)
RetrieveChunks ==
  /\ retriever # NoRetriever
  /\ retrieval = NoRetrieval
  /\ \E agent_name \in AgentNames, k \in 0..MaxTopK, scores \in RetrieverScores(retriever) :
       retrieval' = retrieve_chunks(retriever, agent_name, scores, k)
  /\ UNCHANGED retriever
  /\ UNCHANGED <<rag_vars, router_vars, segment_vars, extract_vars, window_vars, agent_vars>>

\* retrieve_context(agent_name, top_k)
RetrieveContext ==
  /\ retriever # NoRetriever
  /\ retrieval = NoRetrieval
  /\ \E agent_name \in AgentNames, k \in 0..MaxTopK, scores \in RetrieverScores(retriever) :
       retrieval' = retrieve_context(retriever, agent_name, scores, k)
  /\ UNCHANGED retriever
  /\ UNCHANGED <<rag_vars, router_vars, segment_vars, extract_vars, window_vars, agent_vars>>

\* the caller has taken the chunks, the context or the exception
RetrievalDone ==
  /\ retrieval # NoRetrieval
  /\ retrieval' = NoRetrieval
  /\ UNCHANGED retriever
  /\ UNCHANGED <<rag_vars, router_vars, segment_vars, extract_vars, window_vars, agent_vars>>

NextRetriever ==
  \/ BuildRetriever
  \/ RetrieveChunks
  \/ RetrieveContext
  \/ RetrievalDone

SpecRetriever == InitSegment /\ [][NextRetriever]_vars


(* ======================= properties of retrieval ======================== *)
\* a method of the index has returned
Served == phase = "served"

MergedDocs == dense_docs \o bm25_docs

MergedTexts == { d.page_content : d \in Range(MergedDocs) }

Score(doc) == rrf_scores[doc.page_content]

\* 1/(k_param + rank) for the 1-based rank of the window in the list, 0 if absent
SourceTerm(list, doc) ==
  IF \E i \in DOMAIN list : list[i] = doc
  THEN RrfTerm(CHOOSE i \in DOMAIN list : list[i] = doc)
  ELSE 0

\* position at which a text is first met in dense_docs + bm25_docs
FirstMet(t) ==
  CHOOSE i \in DOMAIN MergedDocs :
    /\ MergedDocs[i].page_content = t
    /\ \A j \in 1..(i - 1) : MergedDocs[j].page_content # t

\* number of listed windows that carry the text t
Occurrences(t) == Cardinality({ i \in DOMAIN MergedDocs : MergedDocs[i].page_content = t })

\* texts that rank ahead of t: higher fused score, or the same score and met earlier
Ahead(t) ==
  { u \in MergedTexts \ {t} :
      \/ rrf_scores[u] > rrf_scores[t]
      \/ rrf_scores[u] = rrf_scores[t] /\ FirstMet(u) < FirstMet(t) }

HitTexts == [i \in DOMAIN hits |-> hits[i].page_content]

\* C1: the fused score of every listed window is the sum over the two sources of
\* 1/(60 + rank), a source that does not list the window contributing 0 (at most
\* one term per source and window), also when windows have identical text.
C1_ScoreIsSumOverSources ==
  Served =>
    \A d \in Range(MergedDocs) :
      Score(d) = SourceTerm(dense_docs, d) + SourceTerm(bm25_docs, d)

\* C2: the hits are in non-increasing fused-score order, and of two hits with the
\* same fused score the one met first in dense_docs + bm25_docs comes first.
C2_HitsOrderedByScoreThenFirstMet ==
  Served =>
    \A i, j \in DOMAIN hits :
      i < j =>
        \/ Score(hits[i]) > Score(hits[j])
        \/ /\ Score(hits[i]) = Score(hits[j])
           /\ FirstMet(hits[i].page_content) < FirstMet(hits[j].page_content)

\* two hits tie; the lexical list has them the other way round, and they are
\* returned in the order of the dense list, where they are met first
C2_Witness ==
  /\ Served
  /\ \E i \in DOMAIN hits :
       /\ i + 1 \in DOMAIN hits
       /\ Score(hits[i]) = Score(hits[i + 1])
       /\ \E m, n \in DOMAIN bm25_docs :
            m < n /\ bm25_docs[m] = hits[i + 1] /\ bm25_docs[n] = hits[i]
       /\ \E m, n \in DOMAIN dense_docs :
            m < n /\ dense_docs[m] = hits[i] /\ dense_docs[n] = hits[i + 1]

\* the windows of the index have pairwise different texts
TextsDistinct ==
  \A i, j \in DOMAIN documents :
    documents[i].page_content = documents[j].page_content => i = j

\* C3 as stated: fusing (lexical, dense) returns the same ranked sequence as
\* fusing (dense, lexical); stated for indexes without two windows of the same
\* text, where a window and its text are the same thing.
C3_SymmetricOutput ==
  Served /\ TextsDistinct => Fuse(bm25_docs, dense_docs, top_k) = hits

ScoresPairwiseDistinct ==
  \A t, u \in MergedTexts : rrf_scores[t] = rrf_scores[u] => t = u

\* C3 amended: when no two distinct listed texts have the same fused score, fusing
\* (lexical, dense) returns the same sequence of window texts as fusing (dense,
\* lexical).
C3_SymmetricWhenNoTies ==
  Served /\ ScoresPairwiseDistinct =>
    LET swapped == Fuse(bm25_docs, dense_docs, top_k)
    IN  [i \in DOMAIN swapped |-> swapped[i].page_content] = HitTexts

\* two different source lists without ties, and more than one hit
C3_Witness ==
  /\ Served
  /\ ScoresPairwiseDistinct
  /\ dense_docs # bm25_docs
  /\ Len(hits) >= 2

\* C4: for top_k >= 1 no window is returned twice and at most top_k are returned.
C4_HitsDistinctAndCapped ==
  Served /\ top_k >= 1 =>
    /\ Injective(hits)
    /\ Len(hits) <= top_k

\* the two lists hold 2 * top_k entries with more than top_k texts, a text twice
C4_Witness ==
  /\ Served
  /\ top_k >= 1
  /\ Len(MergedDocs) = 2 * top_k
  /\ Cardinality(MergedTexts) > top_k
  /\ Cardinality(MergedTexts) < Len(MergedDocs)
  /\ Len(hits) = top_k

\* C5 as stated: a window listed only by the lexical source, at lexical rank r, is
\* returned with fused score 1/(60 + r) for every top_k >= 1 and every dense list;
\* stated for indexes without two windows of the same text.
C5_LexicalOnlyAlwaysReturned ==
  Served /\ top_k >= 1 /\ TextsDistinct =>
    \A r \in DOMAIN bm25_docs :
      bm25_docs[r] \notin Range(dense_docs) =>
        /\ bm25_docs[r] \in Range(hits)
        /\ Score(bm25_docs[r]) = RrfTerm(r)

\* C5 amended: a window listed only by the lexical source, at lexical rank r, has
\* fused score at least 1/(60 + r), exactly that when no other listed window has
\* its text; a window with its text is returned exactly when fewer than top_k
\* texts rank ahead of it, and then it is that window if its text is listed once.
C5_LexicalOnlyReturnedIfRankedInTopK ==
  Served /\ top_k >= 1 =>
    \A r \in DOMAIN bm25_docs :
      LET w == bm25_docs[r]
          t == w.page_content
      IN  w \notin Range(dense_docs) =>
            /\ Score(w) >= RrfTerm(r)
            /\ Occurrences(t) = 1 => Score(w) = RrfTerm(r)
            /\ (t \in Range(HitTexts)) <=> (Cardinality(Ahead(t)) < top_k)
            /\ Occurrences(t) = 1 /\ Cardinality(Ahead(t)) < top_k => w \in Range(hits)

\* a lexical-only window is returned next to dense hits, another one is cut
C5_Witness ==
  /\ Served
  /\ top_k >= 1
  /\ \E r \in DOMAIN bm25_docs :
       /\ bm25_docs[r] \notin Range(dense_docs)
       /\ Occurrences(bm25_docs[r].page_content) = 1
       /\ bm25_docs[r] \in Range(hits)
       /\ Score(bm25_docs[r]) = RrfTerm(r)
  /\ \E h \in Range(hits) : h \in Range(dense_docs)

\* C6: every hit is one of the windows of the index (self.documents), whether the
\* index was built from text or loaded from a bundle.
C6_HitsAreIndexedWindows ==
  Served => \A h \in Range(hits) : h \in Range(documents)

\* a loaded index returns a hit that only the dense search listed
C6_Witness ==
  /\ Served
  /\ origin = "loaded"
  /\ \E h \in Range(hits) : h \in Range(dense_docs) /\ h \notin Range(bm25_docs)

\* C7: with zero hits answer returns the canonical not-found result and never
\* calls the generation service; with at least one hit it calls it exactly once.
C7_NotFoundWithoutGeneration ==
  call = "answer" =>
    /\ hits = <<>> => result = <<NotFound, <<>>>> /\ gen_calls = 0
    /\ hits # <<>> => gen_calls = 1

C7_Witness ==
  /\ call = "answer"
  /\ hits = <<>>
  /\ result = <<NotFound, <<>>>>
  /\ gen_calls = 0

\* C8: the context holds the complete blocks of a prefix of the hits, in rank
\* order; the sum of their lengths is within max_context_chars; the first block
\* that would exceed it and every later block are left out.
C8_ContextIsPrefixOfWholeBlocks ==
  call = "answer" =>
    \E n \in 0..Len(hits) :
      /\ context_blocks = [i \in 1..n |-> Block(hits[i])]
      /\ SumLen(context_blocks) <= max_context_chars
      /\ n < Len(hits) =>
           SumLen(context_blocks) + Len(Block(hits[n + 1])) > max_context_chars
      /\ hits # <<>> => result[2] = Join(context_blocks, <<"\n", "\n">>)

\* a block is included, the next is too large, and a later one that would still
\* have fitted is left out
C8_Witness ==
  /\ call = "answer"
  /\ Len(context_blocks) >= 1
  /\ Len(hits) > Len(context_blocks) + 1
  /\ \E j \in (Len(context_blocks) + 2)..Len(hits) :
       SumLen(context_blocks) + Len(Block(hits[j])) <= max_context_chars

(* ======================== properties of the router ====================== *)
Routed == routing.outcome # "none"

\* the response is no JSON, or JSON that is not an object with a route field
Malformed(text) ==
  \/ ~text.json
  \/ text.parsed.value.t # "dict"
  \/ ~text.parsed.obj.has_route

KnownRoutes == { JStr(i) : i \in Intents }

\* C9: a malformed or non-parseable response (no JSON, empty, or JSON that is not
\* an object with a route field) makes _route_question return the intent "rag"
\* with the default hint 5, and never raise.
C9_MalformedGivesDefault ==
  Routed /\ Malformed(raw) =>
    /\ routing.outcome = "returned"
    /\ routing.route = JStr("rag")
    /\ routing.top_k = JInt(DefaultTopK)

\* C10: for a response with a route field, _route_question returns, the returned
\* route is one of the six intents, and a label that is none of them (whatever
\* its JSON type) is replaced by "rag".
C10_RouteIsKnownIntent ==
  Routed /\ ~Malformed(raw) =>
    /\ routing.outcome = "returned"
    /\ routing.route \in KnownRoutes
    /\ raw.parsed.obj.route \notin KnownRoutes => routing.route = JStr("rag")

\* C11: the top_k of every decision _route_question returns is a positive
\* integer; a hint that is missing, no integer, zero or negative is replaced by
\* the default 5.
C11_HintIsPositiveInteger ==
  Routed /\ routing.outcome = "returned" =>
    /\ routing.top_k.t = "int"
    /\ routing.top_k.n >= 1
    /\ ~(raw.json /\ raw.parsed.obj.has_top_k /\ raw.parsed.obj.top_k.t = "int"
          /\ raw.parsed.obj.top_k.n >= 1) => routing.top_k = JInt(DefaultTopK)

(* ====================== properties of the segmenters ==================== *)
\* a segmenter has returned
Segmented == segmenter # "none"

\* the leaf header occurrences among the header occurrences hs (line indices) of
\* text t: the next header's number is no strict dot-extension of its own
LeafHeaders(t, hs) ==
  { i \in DOMAIN hs : ~(i < Len(hs) /\ StartsWithDot(t[hs[i + 1]].number, t[hs[i]].number)) }

\* C12: a segmenter emits exactly one chunk for every leaf header occurrence and
\* none for a non-leaf header: the number of chunks is the number of leaf
\* headers, also when headers share a title or a number.
C12_OneChunkPerLeafHeader ==
  /\ segmenter = "build_structured_chunks" =>
        Len(chunks) = Cardinality(LeafHeaders(protocol_text, extract_headers(protocol_text)))
  /\ segmenter = "split_into_sections" =>
        Len(named_sections) = Cardinality(LeafHeaders(protocol_text, matches(protocol_text)))

\* number b is the header number that may follow number a in a valid numbering:
\* a's first child, or the next sibling of a or of one of a's ancestors
FollowsInHierarchy(a, b) ==
  \/ b = Append(a, 1)
  \/ /\ Len(b) <= Len(a)
     /\ SubSeq(b, 1, Len(b) - 1) = SubSeq(a, 1, Len(b) - 1)
     /\ b[Len(b)] = a[Len(b)] + 1

\* the header occurrences hs of text t are numbered as a valid hierarchy, from
\* section 1 on
ValidHierarchy(t, hs) ==
  /\ hs # <<>>
  /\ t[hs[1]].number = <<1>>
  /\ \A i \in 1..(Len(hs) - 1) : FollowsInHierarchy(t[hs[i]].number, t[hs[i + 1]].number)

RECURSIVE Concat(_)
\* the contents, one after the other
Concat(contents) ==
  IF contents = <<>> THEN <<>> ELSE Head(contents) \o Concat(Tail(contents))

\* the lines of a content that are not empty
NonEmptyLines(content) == SelectSeq(content, LAMBDA line : line # EmptyLine)

\* C13: for a text whose headers are numbered as a valid hierarchy, the contents
\* of the chunks, in document order and without the white space between them, are
\* the text: no line is lost (not before the first header, not between a
\* non-leaf header and its first child) and none is in two chunks.
C13_ChunksReconstructText ==
  /\ ( /\ segmenter = "build_structured_chunks"
       /\ ValidHierarchy(protocol_text, extract_headers(protocol_text)) )
     => Concat([k \in DOMAIN chunks |-> chunks[k].content]) = protocol_text
  /\ ( /\ segmenter = "split_into_sections"
       /\ ValidHierarchy(protocol_text, matches(protocol_text))
       /\ Len(named_sections) = Cardinality(LeafHeaders(protocol_text, matches(protocol_text))) )
     => NonEmptyLines(Concat([k \in DOMAIN named_sections |-> named_sections[k].value]))
          = protocol_text

\* the names the second scenario of the specification expects, with a separator
ScenarioANames(sep) ==
  << <<"INTRODUCTION">>, <<"METHODS", sep, "Design">>, <<"METHODS", sep, "Endpoints">> >>

\* the titles of the chunks a segmenter returned, in order
ChunkTitles ==
  IF segmenter = "build_structured_chunks"
  THEN [k \in DOMAIN chunks |-> chunks[k].full_title]
  ELSE Keys(named_sections)

TitleOf(t, hs, number) ==
  t[hs[CHOOSE k \in DOMAIN hs : t[hs[k]].number = number]].title

\* the titles of the headers numbered with the prefixes of number, root first
PathTitles(t, hs, number) ==
  [j \in 1..Len(number) |-> TitleOf(t, hs, SubSeq(number, 1, j))]

\* the name of the chunk of match i of a validly numbered text: the section's
\* title, for a subsection then ": " and its own title, and then ": " and its
\* sub-subsections' titles joined by ", " if it has some
SplitName(t, ms, i) ==
  LET number == t[ms[i]].number
      subs == subsubsections_by_subsection(t, number)
  IN  JoinWith(PathTitles(t, ms, number), ": ")
        \o (IF Len(number) = 2 /\ subs # <<>> THEN <<": ">> \o JoinWith(subs, ", ") ELSE <<>>)

ChunkCount ==
  IF segmenter = "build_structured_chunks" THEN Len(chunks) ELSE Len(named_sections)

\* no pattern of the segmenter that ran matches in the text
NoHeaderMatches ==
  CASE segmenter = "build_structured_chunks" -> extract_headers(protocol_text) = <<>>
    [] segmenter = "split_into_sections" -> matches(protocol_text) = <<>>
    [] segmenter = "split_into_sections_regex" ->
         \A i \in DOMAIN protocol_text : ~SECTION_HEADER_PATTERN(protocol_text, i)
    [] OTHER -> FALSE

\* C15: when no header matches anywhere in a (non-empty) text, a segmenter
\* returns exactly one chunk: the whole text under a sentinel title, never no
\* chunk at all.
C15_WholeDocumentFallback ==
  Segmented /\ protocol_text # <<>> /\ NoHeaderMatches =>
    /\ ChunkCount = 1
    /\ segmenter # "build_structured_chunks" =>
          /\ named_sections[1].key = full_document
          /\ named_sections[1].value = protocol_text

\* the section headers and the subsection headers of the text split_into_sections
\* was given, as indices into matches
SectionMatches ==
  { i \in DOMAIN matches(protocol_text) : Len(protocol_text[matches(protocol_text)[i]].number) = 1 }
SubsectionMatches ==
  { i \in DOMAIN matches(protocol_text) : Len(protocol_text[matches(protocol_text)[i]].number) = 2 }

MatchLine(i) == protocol_text[matches(protocol_text)[i]]

\* the titles of the sub-subsection headers under subsection i, in text order
SubTitles(i) ==
  LET under == SelectSeq(SubSeq(protocol_text, 1, Len(protocol_text) - 1),
                         LAMBDA line : /\ Len(line.number) >= 3
                                       /\ SubSeq(line.number, 1, 2) = MatchLine(i).number)
  IN  [k \in DOMAIN under |-> under[k].title]

\* ": sub1, sub2, ..." for subsection i, or nothing
SubSuffix(i) ==
  IF SubTitles(i) = <<>> THEN <<>> ELSE <<": ">> \o JoinWith(SubTitles(i), ", ")

\* the names of the three documented forms
DocumentedNames ==
  { <<MatchLine(i).title>> : i \in SectionMatches }
    \cup { <<MatchLine(p).title, ": ", MatchLine(i).title>> \o SubSuffix(i) :
             p \in SectionMatches, i \in SubsectionMatches }

ParentsOf(i) ==
  { p \in SectionMatches : p < i /\ MatchLine(p).number = <<MatchLine(i).number[1]>> }

\* "section_name: " for subsection i, the section being the nearest header
\* before it that carries its leading number, or nothing without such a header
SectionPrefix(i) ==
  IF ParentsOf(i) = {} THEN <<>>
  ELSE <<MatchLine(CHOOSE p \in ParentsOf(i) : \A q \in ParentsOf(i) : q <= p).title, ": ">>

Built == phase # "new"

\* C16: when use_existing is asked for with a persist_dir and the bundle there is
\* missing, build_rag_index_from_text does not return a newly built index.
C16_NoSilentRebuild ==
  Built /\ use_existing_arg /\ persist_dir = "dir" => origin # "built"

(* ================== properties of a failing generation ================== *)
\* C17: when generate fails in a retrieval request after the hits have been
\* computed, the failure reaches the caller and so do the computed hits.
C17_HitsSurviveGenerationFailure ==
  Served /\ raised = GenerationError =>
    /\ hits # <<>>
    /\ retrieved = hits

(* ====================== properties of the extractors ==================== *)
\* the payload is no instance of the schema of the route: it is no JSON, no
\* object, has a key the schema does not declare, lacks a required one, or has
\* a value of another type than the schema's
SchemaMismatch ==
  \/ payload.kind # "dict"
  \/ ~(payload.keys \subseteq SchemaFields(extractor))
  \/ ~(RequiredFields(extractor) \subseteq payload.keys)
  \/ (~payload.typed /\ payload.keys \cap SchemaFields(extractor) # {})

\* C18: for every extractor, a payload that does not match the extractor's
\* schema ends in an error: it is not returned as a valid result and not
\* passed through unvalidated.
C18_MismatchIsAnError ==
  extractor # "none" /\ SchemaMismatch => extraction.outcome = "raised"

(* ======================= properties of the windowing ==================== *)
\* the table blocks of the section's content: the maximal runs of three table
\* rows or more (a row of cells, the row of dashes, further rows), as <<i, j>>
TableBlocks ==
  { b \in (DOMAIN section_content) \X (DOMAIN section_content) :
      /\ b[2] - b[1] + 1 >= 3
      /\ \A i \in b[1]..b[2] : section_content[i].table
      /\ b[1] > 1 => ~section_content[b[1] - 1].table
      /\ b[2] < Len(section_content) => ~section_content[b[2] + 1].table }

\* the window is flagged as a table
IsTable(window) == "is_table" \in DOMAIN window /\ window.is_table

\* C19: every table block of a content is exactly one window, flagged is_table:
\* its rows are in no other window, it is not split whatever its size, and no
\* prose is in its window.
C19_TableBlockIsOneWindow ==
  \A b \in TableBlocks :
    /\ \E k \in DOMAIN windows :
         /\ windows[k].page_content = SubSeq(section_content, b[1], b[2])
         /\ IsTable(windows[k])
    /\ \A k \in DOMAIN windows :
         (\E i \in DOMAIN windows[k].page_content : windows[k].page_content[i].table)
           => windows[k].page_content = SubSeq(section_content, b[1], b[2])

(* ===================== properties of the agent dispatch ================= *)
\* the extractor of the route raises on the reply generate gave it
ExtractorRaises ==
  /\ agent_route # "rag"
  /\ _run_specialized_agent(Output(agent_route), payload).outcome = "raised"

\* the handler of a route: _run_rag, or the route's own extractor
HandlerOf(route) == IF route = "rag" THEN "_run_rag" ELSE route

\* C21: for each of the six intents answer dispatches to exactly one handler,
\* retrieval plus composition for "rag" and the intent's own extractor after
\* the context selection for a structured intent, and returns a JSON string
\* that holds the question and the routing decision; no intent fails in
\* dispatch.  An extractor that raises on the reply it got is no dispatch
\* failure and is left out.
C21_EveryIntentIsDispatched ==
  agent_route # "none" /\ ~ExtractorRaises
    => /\ agent_reply.outcome = "returned"
       /\ agent_reply.handler = HandlerOf(agent_route)
       /\ {"question", "routing"} \subseteq agent_reply.keys

(* ====================== properties of the lexical list ================== *)
\* C22: the lexical ranked list of hybrid_search holds exactly min(top_k, N)
\* windows of an index of N windows, whatever their scores; so on an index
\* that is not empty and with top_k >= 1 hybrid_search returns at least one
\* hit, and answer does not take its not-found return: it calls generate once
\* and its result is not the not-found pair.
C22_LexicalListIsFull ==
  Served /\ documents # <<>>
    => /\ Len(bm25_docs) = Min(top_k, Len(documents))
       /\ top_k >= 1 => /\ hits # <<>>
                        /\ call = "answer" => /\ gen_calls = 1
                                              /\ result # <<NotFound, <<>>>>

\* answer on an index of more windows than top_k: the lexical list is cut to
\* top_k windows, there are hits and generate has been called
C22_Witness ==
  /\ Served
  /\ call = "answer"
  /\ top_k >= 2
  /\ Len(documents) > top_k
  /\ Len(bm25_docs) = top_k
  /\ Len(hits) >= 1
  /\ gen_calls = 1

(* ================== properties of a sequence of builds ================== *)
\* the windows of a list of documents
WindowSet(docs) == Range(docs)

\* C23: after any sequence of build_rag_index_from_text calls that share one
\* persist_dir, the index a call returns indexes exactly the windows of the
\* text passed to that call, also when use_existing is true and a bundle of
\* an earlier call is present; and with a persist_dir the bundle there holds
\* the window set of the index returned, built or loaded.
C23_IndexIsOfTheTextPassed ==
  Built
    => /\ WindowSet(documents) = WindowSet(_build_documents_from_sections(text_arg))
       /\ WindowSet(store) = WindowSet(documents)
       /\ persist_dir = "dir" => /\ disk.exists
                                 /\ WindowSet(disk.docs) = WindowSet(documents)

(* ================= properties of the structured retriever =============== *)
\* the score of a returned chunk, chunks being numbered as in retriever.chunks
ScoreOf(chunk) == retrieval.scores[chunk.section_id]

\* the indices of the chunks whose score is positive
PositiveChunks == { i \in DOMAIN retrieval.scores : retrieval.scores[i] > 0 }

\* C24: retrieve_chunks returns at most top_k chunks, all with a strictly
\* positive score, in non-increasing score order, and leaves out no chunk of
\* positive score that outranks a returned one; an agent name that is no key
\* of the target queries raises ValueError; retrieve_context returns
\* "No relevant sections found." exactly when no chunk has a positive score.
C24_RetrieveChunksContract ==
  retrieval.method # "none"
    => IF retrieval.agent_name \notin retriever.target_queries
       THEN retrieval.outcome = "raised" /\ retrieval.error = "ValueError"
       ELSE LET results == retrieval.results
            IN  /\ retrieval.outcome = "returned"
                /\ Len(results) <= retrieval.top_k
                /\ \A r \in DOMAIN results : ScoreOf(results[r]) > 0
                /\ \A r, q \in DOMAIN results : r < q => ScoreOf(results[r]) >= ScoreOf(results[q])
                /\ \A i \in PositiveChunks :
                     (\A r \in DOMAIN results : results[r].section_id # i)
                       => \A r \in DOMAIN results : retrieval.scores[i] <= ScoreOf(results[r])
                /\ retrieval.method = "retrieve_context"
                     => (retrieval.context = NoRelevantSections <=> PositiveChunks = {})
====
